---- MODULE Spec2Model ----
(***************************************************************************)
(* SSD1306 I2C display driver (src/ussd1306_i2c.py, and the older variant  *)
(* src/ussd1306-i2c.py).  The driver object's cached fields, the optional  *)
(* power pin and the I2C bus are the state; every public method is one     *)
(* action.  A method is a straight-line Python body, so it is written as   *)
(* an operator on a call context `c`: the object's fields, the events the  *)
(* call has produced so far, and the exception (if any) that is            *)
(* propagating.  Once an exception is raised the rest of the body is       *)
(* skipped, which is what `Raised(c)` at the head of every operator does.  *)
(***************************************************************************)
EXTENDS Integers, Sequences, FiniteSets, TLC

\* ---------------------------------------------------------------- bounds
\* Number of method calls made on one constructed driver object.
MaxCalls == 3
\* How far outside its documented domain an integer argument is drawn.
Margin == 1

\* ------------------------------------------------------- class constants
ADDRESSING_HORIZ == 0
ADDRESSING_VERT == 1
ADDRESSING_PAGE == 2
POWER_UP == 175
POWER_DOWN == 174
DISPLAY_BLANK == <<174>>
DISPLAY_ALL == <<165>>
DISPLAY_NORMAL == <<164, 166, 175>>
DISPLAY_INVERSE == <<167>>
DC_CMD == 128
DC_DATA == 64
width == 128
height == 64

\* ------------------------------------------------------------ arithmetic
RECURSIVE BitOr(_, _)
\* Python's a | b on non-negative integers.
BitOr(a, b) ==
    IF a = 0 THEN b
    ELSE IF b = 0 THEN a
    ELSE (IF a % 2 = 1 \/ b % 2 = 1 THEN 1 ELSE 0) + 2 * BitOr(a \div 2, b \div 2)

\* Python's a << n.
Shl(a, n) == a * 2^n

\* ------------------------------------------------------------- the state
VARIABLES
    phase,          \* "new": not constructed, "ready": __init__ returned, "failed": __init__ raised
    variant,        \* which file's class is constructed: "per_byte" (ussd1306_i2c.py) or "block" (ussd1306-i2c.py)
    pwr,            \* the pwr argument: "None", "WiPy" (a machine.Pin) or "pyBoard" (a pyb.Pin)
    pwr_pin,        \* level of the power pin, -1 while never driven
    power,          \* self.power
    addressing,     \* self.addressing
    display_mode,   \* self.display_mode
    osc_freq,       \* self.osc_freq
    clock_div,      \* self.clock_div
    call,           \* the last method called and its arguments
    result,         \* "ok" or the name of the exception the last call raised
    trace,          \* the events of the last call, in order: bus transfers, pin writes, sleeps
    ncalls,         \* number of method calls made on the object since __init__ returned
    faulted,        \* whether the bus has rejected any transfer so far
    ctl_power,      \* the last power opcode (0xAE / 0xAF) the controller received, 0 if none
    ctl_d5          \* the last value written to the controller's 0xD5 register, -1 if none

vars == <<phase, variant, pwr, pwr_pin, power, addressing, display_mode,
          osc_freq, clock_div, call, result, trace, ncalls, faulted, ctl_power, ctl_d5>>

\* ----------------------------------------------------------- call context
\* One event of a call.  kind: "i2c" (a transfer the bus accepted),
\* "i2c_fail" (a transfer the bus rejected), "pin" (pwr.value(val)),
\* "sleep_ms" / "sleep_us" (a delay of val).
Event(kind, buf, val) == [kind |-> kind, buf |-> buf, val |-> val]

\* The context a call starts in: the object's fields as they are now, no
\* event yet, no exception, and the bus failing its failAt-th transfer.
Enter(failAt) ==
    [power |-> power, addressing |-> addressing, display_mode |-> display_mode,
     osc_freq |-> osc_freq, clock_div |-> clock_div,
     pwr |-> pwr, pwr_pin |-> pwr_pin,
     trace |-> <<>>, err |-> "ok", failAt |-> failAt, attempts |-> 0]

Raised(c) == c.err # "ok"

Raise(c, exc) == [c EXCEPT !.err = exc]

\* A failing `assert` raises AssertionError: Raise(c, "AssertionError").

\* struct.pack('B' * len(arr), *arr): one unsigned byte per element.
pack(arr) == [i \in 1..Len(arr) |-> arr[i] % 256]

\* self.i2c.writeto(self.devid, buf): the collaborator either accepts the
\* transfer or raises.
writeto(c, buf) ==
    IF Raised(c) THEN c
    ELSE IF c.attempts + 1 = c.failAt
         THEN [c EXCEPT !.attempts = @ + 1,
                        !.trace = Append(@, Event("i2c_fail", buf, 0)),
                        !.err = "OSError"]
         ELSE [c EXCEPT !.attempts = @ + 1,
                        !.trace = Append(@, Event("i2c", buf, 0))]

\* Mutant: a transfer the bus rejects is issued a second time.
bitmap_retry(c, arr, dc) ==
    IF Raised(c) THEN c
    ELSE LET r == writeto(c, pack(<<dc>> \o arr))
         IN IF r.err = "OSError"
            THEN writeto([r EXCEPT !.err = "ok"], pack(<<dc>> \o arr))
            ELSE r

bitmap(c, arr, dc) ==
    IF Raised(c) THEN c ELSE writeto(c, pack(<<dc>> \o arr))

RECURSIVE Interleave(_)
\* arr2 of command(): DC_CMD, b1, DC_CMD, b2, ...
Interleave(arr) ==
    IF arr = <<>> THEN <<>>
    ELSE <<DC_CMD, Head(arr)>> \o Interleave(Tail(arr))

\* Mutant: arr2 is passed on whole, its leading DC_CMD is not sliced off.
command_no_slice(c, arr) ==
    IF Raised(c) THEN c ELSE bitmap(c, Interleave(arr), DC_CMD)

\* arr2[1::] is arr2 without its first element, and empty when arr2 is.
command(c, arr) ==
    IF Raised(c) THEN c
    ELSE LET arr2 == Interleave(arr)
         IN bitmap(c, SubSeq(arr2, 2, Len(arr2)), DC_CMD)

\* Mutant: a payload longer than 32 bytes is sent as two transfers.
data_two_fragments(c, arr) ==
    IF Raised(c) THEN c
    ELSE IF Len(arr) <= 32 THEN bitmap(c, arr, DC_DATA)
    ELSE bitmap(bitmap(c, SubSeq(arr, 1, 32), DC_DATA), SubSeq(arr, 33, Len(arr)), DC_DATA)

data(c, arr) ==
    IF Raised(c) THEN c ELSE bitmap(c, arr, DC_DATA)

\* ------------------------------------------------- pins and delay service
\* self.pwr.value(v)
pwr_value(c, v) ==
    IF Raised(c) THEN c
    ELSE [c EXCEPT !.pwr_pin = v, !.trace = Append(@, Event("pin", <<>>, v))]

\* time.sleep_ms(mseconds), or machine.delay(mseconds) where time has none
sleep_ms(c, mseconds) ==
    IF Raised(c) THEN c
    ELSE [c EXCEPT !.trace = Append(@, Event("sleep_ms", <<>>, mseconds))]

\* time.sleep_us(useconds), or machine.udelay(useconds) where time has none
sleep_us(c, useconds) ==
    IF Raised(c) THEN c
    ELSE [c EXCEPT !.trace = Append(@, Event("sleep_us", <<>>, useconds))]

\* Python values passed where a bool is expected are written "True",
\* "False", or "1" (an int that is truthy but not a bool).
IsBool(v) == v \in {"True", "False"}
Truthy(v) == v \in {"True", "1"}

\* --------------------------------------- register setters (ussd1306_i2c.py)
set_power(c, p) ==
    IF Raised(c) THEN c
    ELSE IF p \notin {POWER_UP, POWER_DOWN} THEN Raise(c, "AssertionError")
    ELSE command([c EXCEPT !.power = p], <<p>>)

set_vcomh_deselect_level(c, level) ==
    IF Raised(c) THEN c
    ELSE IF ~(0 <= level /\ level < 8) THEN Raise(c, "AssertionError")
    ELSE command(c, <<219, Shl(level, 4)>>)

set_precharge_period(c, phase1_dclk, phase2_dclk) ==
    IF Raised(c) THEN c
    ELSE IF ~(0 < phase1_dclk /\ phase1_dclk < 16) THEN Raise(c, "AssertionError")
    ELSE IF ~(0 < phase2_dclk /\ phase2_dclk < 16) THEN Raise(c, "AssertionError")
    ELSE command(c, <<217, BitOr(Shl(phase2_dclk, 4), phase1_dclk)>>)

set_com_pins_hw_config(c, enable_alt_config, enable_lr_remap) ==
    IF Raised(c) THEN c
    ELSE IF ~IsBool(enable_alt_config) THEN Raise(c, "AssertionError")
    ELSE IF ~IsBool(enable_lr_remap) THEN Raise(c, "AssertionError")
    ELSE LET v0 == 2
             v1 == IF Truthy(enable_alt_config) THEN BitOr(v0, 16) ELSE v0
             v2 == IF Truthy(enable_lr_remap) THEN BitOr(v1, 32) ELSE v1
         IN command(c, <<218, v2>>)

set_com_output_scan_dir_remap_enabled(c, status) ==
    IF Raised(c) THEN c
    ELSE IF ~IsBool(status) THEN Raise(c, "AssertionError")
    ELSE command(c, <<IF Truthy(status) THEN 200 ELSE 192>>)

set_segment_remap_enabled(c, status) ==
    IF Raised(c) THEN c
    ELSE IF ~IsBool(status) THEN Raise(c, "AssertionError")
    ELSE command(c, <<IF Truthy(status) THEN 161 ELSE 160>>)

set_chargepump_enabled(c, status) ==
    IF Raised(c) THEN c
    ELSE IF ~IsBool(status) THEN Raise(c, "AssertionError")
    ELSE command(c, <<141, IF Truthy(status) THEN 20 ELSE 16>>)

\* Mutant: the divider is encoded without the -1.
set_oscfreqclockdiv_raw_div(c) ==
    IF Raised(c) THEN c
    ELSE command(c, <<213, BitOr(Shl(c.osc_freq, 4), c.clock_div)>>)

set_oscfreqclockdiv(c) ==
    IF Raised(c) THEN c
    ELSE command(c, <<213, BitOr(Shl(c.osc_freq, 4), c.clock_div - 1)>>)

\* Mutant: the field is stored before the argument is validated.
set_osc_freq_store_first(c, f, set) ==
    IF Raised(c) THEN c
    ELSE IF ~(0 <= f /\ f < 16) THEN Raise([c EXCEPT !.osc_freq = f], "AssertionError")
    ELSE IF set THEN set_oscfreqclockdiv([c EXCEPT !.osc_freq = f])
    ELSE [c EXCEPT !.osc_freq = f]

set_osc_freq(c, f, set) ==
    IF Raised(c) THEN c
    ELSE IF ~(0 <= f /\ f < 16) THEN Raise(c, "AssertionError")
    ELSE IF set THEN set_oscfreqclockdiv([c EXCEPT !.osc_freq = f])
    ELSE [c EXCEPT !.osc_freq = f]

set_clock_div(c, d, set) ==
    IF Raised(c) THEN c
    ELSE IF ~(0 < d /\ d <= 16) THEN Raise(c, "AssertionError")
    ELSE IF set THEN set_oscfreqclockdiv([c EXCEPT !.clock_div = d])
    ELSE [c EXCEPT !.clock_div = d]

set_mux_ratio(c, mux_ratio) ==
    IF Raised(c) THEN c
    ELSE IF ~(16 <= mux_ratio /\ mux_ratio <= 64) THEN Raise(c, "AssertionError")
    ELSE command(c, <<168, mux_ratio - 1>>)

set_disp_offset(c, offset) ==
    IF Raised(c) THEN c
    ELSE IF ~(0 <= offset /\ offset < 63) THEN Raise(c, "AssertionError")
    ELSE command(c, <<211, offset>>)

set_disp_start_line(c, start_line) ==
    IF Raised(c) THEN c
    ELSE IF ~(0 <= start_line /\ start_line < 63) THEN Raise(c, "AssertionError")
    ELSE command(c, <<BitOr(64, start_line)>>)

set_addressing(c, addr) ==
    IF Raised(c) THEN c
    ELSE IF addr \notin {ADDRESSING_HORIZ, ADDRESSING_VERT, ADDRESSING_PAGE}
         THEN Raise(c, "AssertionError")
    ELSE command([c EXCEPT !.addressing = addr], <<32, addr>>)

\* Mutant: a mode that is already the cached one is not transmitted again.
set_display_skip_same(c, mode) ==
    IF Raised(c) THEN c
    ELSE IF mode \notin {DISPLAY_BLANK, DISPLAY_ALL, DISPLAY_NORMAL, DISPLAY_INVERSE}
         THEN Raise(c, "AssertionError")
    ELSE IF c.display_mode = mode THEN c
    ELSE command([c EXCEPT !.display_mode = mode], mode)

set_display(c, mode) ==
    IF Raised(c) THEN c
    ELSE IF mode \notin {DISPLAY_BLANK, DISPLAY_ALL, DISPLAY_NORMAL, DISPLAY_INVERSE}
         THEN Raise(c, "AssertionError")
    ELSE command([c EXCEPT !.display_mode = mode], mode)

\* Mutant: only the low seven bits of the contrast are transmitted.
set_contrast_seven_bit(c, value) ==
    IF Raised(c) THEN c
    ELSE IF ~(0 <= value /\ value <= 255) THEN Raise(c, "AssertionError")
    ELSE command(c, <<129, value % 128>>)

set_contrast(c, value) ==
    IF Raised(c) THEN c
    ELSE IF ~(0 <= value /\ value <= 255) THEN Raise(c, "AssertionError")
    ELSE command(c, <<129, value>>)

position(c, x, y) ==
    IF Raised(c) THEN c
    ELSE IF ~(0 <= x /\ x < width) THEN Raise(c, "AssertionError")
    ELSE IF ~(0 <= y /\ y < height \div 8) THEN Raise(c, "AssertionError")
    ELSE command(c, <<33, x, 127, 34, y, 7>>)

\* [0] * (self.height * self.width // 8)
Zeros == [i \in 1..((height * width) \div 8) |-> 0]

\* Mutant: the cursor is not moved back after the fill.
clear_no_rewind(c) ==
    IF Raised(c) THEN c ELSE data(position(c, 0, 0), Zeros)

\* Mutant: both cursor commands are sent before the zero fill.
clear_fill_last(c) ==
    IF Raised(c) THEN c
    ELSE data(position(position(c, 0, 0), 0, 0), Zeros)

clear(c) ==
    IF Raised(c) THEN c ELSE position(data(position(c, 0, 0), Zeros), 0, 0)

\* ------------------------------------------------ power / reset lifecycle
power_on(c) ==
    IF Raised(c) THEN c
    ELSE IF c.pwr # "None" THEN pwr_value(c, 1) ELSE c

\* self.rst is assigned nowhere in the class: the first statement of
\* reset() raises AttributeError and the rest of the body does not run.
reset(c) ==
    IF Raised(c) THEN c ELSE Raise(c, "AttributeError")

\* Mutant: the pin is dropped before the settle delay.
power_off_pin_first(c) ==
    IF Raised(c) THEN c
    ELSE LET c1 == set_power(clear(c), POWER_DOWN)
             c2 == IF Raised(c1) THEN c1
                   ELSE IF c1.pwr # "None" THEN pwr_value(c1, 0) ELSE c1
         IN sleep_ms(c2, 10)

power_off(c) ==
    IF Raised(c) THEN c
    ELSE LET c1 == sleep_ms(set_power(clear(c), POWER_DOWN), 10)
         IN IF Raised(c1) THEN c1
            ELSE IF c1.pwr # "None" THEN pwr_value(c1, 0) ELSE c1

\* ------------------------------------------------------------ construction
\* if pwr: pwr.init(...).  On a pyb.Pin ("OUT_PP" in dir(pwr)) the argument
\* list names pwr_PULL_NONE, which is bound nowhere: NameError.
pwr_init(c) ==
    IF Raised(c) THEN c
    ELSE IF c.pwr = "pyBoard" THEN Raise(c, "NameError") ELSE c

\* The fields __init__ assigns before it talks to the display.
init_fields(c) ==
    [c EXCEPT !.power = POWER_DOWN, !.addressing = ADDRESSING_HORIZ,
              !.display_mode = DISPLAY_NORMAL]

init_oscdiv(c) ==
    IF Raised(c) THEN c ELSE [c EXCEPT !.osc_freq = 8, !.clock_div = 1]

\* Statement i of the fixed register programming sequence of __init__.
init_step(c, i) ==
    CASE i = 1  -> power_on(c)
      [] i = 2  -> set_power(c, POWER_DOWN)
      [] i = 3  -> set_mux_ratio(c, height)
      [] i = 4  -> set_disp_offset(c, 0)
      [] i = 5  -> set_disp_start_line(c, 0)
      [] i = 6  -> set_segment_remap_enabled(c, "False")
      [] i = 7  -> set_com_output_scan_dir_remap_enabled(c, "False")
      [] i = 8  -> set_com_pins_hw_config(c, "True", "False")
      [] i = 9  -> set_contrast(c, 255)
      [] i = 10 -> set_osc_freq(c, 8, FALSE)
      [] i = 11 -> set_clock_div(c, 1, TRUE)
      [] i = 12 -> set_chargepump_enabled(c, "True")
      [] i = 13 -> set_addressing(c, ADDRESSING_HORIZ)
      [] i = 14 -> set_precharge_period(c, 1, 15)
      [] i = 15 -> set_vcomh_deselect_level(c, 4)
      [] i = 16 -> set_display(c, DISPLAY_NORMAL)
      [] i = 17 -> clear(c)

\* Statements i..17 run in order; the first one that raises ends the run.
RECURSIVE init_sequence(_, _)
init_sequence(c, i) ==
    IF i > 17 \/ Raised(c) THEN c
    ELSE init_sequence(init_step(c, i), i + 1)

init(c) == init_sequence(init_oscdiv(pwr_init(init_fields(c))), 1)

\* ------------------------------------------ the variant ussd1306-i2c.py
\* self.i2c.send(buf, addr=self.devid, timeout=5000)
blk_bitmap(c, arr, dc) ==
    IF Raised(c) THEN c ELSE writeto(c, pack(<<dc>> \o arr))

blk_command(c, arr) == blk_bitmap(c, arr, DC_CMD)

\* command(n) with a bare int: bitmap evaluates [dc] + n, a TypeError.
blk_command_int(c, n) == IF Raised(c) THEN c ELSE Raise(c, "TypeError")

blk_data(c, arr) ==
    IF Raised(c) THEN c ELSE blk_bitmap(c, arr, DC_DATA)

blk_set_power(c, p) ==
    IF Raised(c) THEN c
    ELSE IF p \notin {POWER_UP, POWER_DOWN} THEN Raise(c, "AssertionError")
    ELSE blk_command_int([c EXCEPT !.power = p], p)

blk_set_contrast(c, value) ==
    IF Raised(c) THEN c
    ELSE IF ~(0 <= value /\ value <= 255) THEN Raise(c, "AssertionError")
    ELSE blk_command(c, <<129, value>>)

blk_position(c, x, y) ==
    IF Raised(c) THEN c
    ELSE IF ~(0 <= x /\ x < width) THEN Raise(c, "AssertionError")
    ELSE IF ~(0 <= y /\ y < height \div 8) THEN Raise(c, "AssertionError")
    ELSE blk_command(c, <<32, 0, x, 33, 0, y>>)

blk_clear(c) ==
    IF Raised(c) THEN c
    ELSE blk_position(blk_data(blk_position(c, 0, 0), Zeros), 0, 0)

\* self.rst is assigned nowhere in this class either.
blk_reset(c) ==
    IF Raised(c) THEN c ELSE Raise(c, "AttributeError")

blk_power_on(c) ==
    IF Raised(c) THEN c
    ELSE blk_reset(IF c.pwr # "None" THEN pwr_value(c, 1) ELSE c)

\* The class defines set_adressing; __init__ calls self.set_addressing.
blk_call_set_addressing(c) ==
    IF Raised(c) THEN c ELSE Raise(c, "AttributeError")

\* __init__ names DISPLAY_NORMAL without self.
blk_call_set_display(c) ==
    IF Raised(c) THEN c ELSE Raise(c, "NameError")

\* Statement i of the register programming sequence of this __init__.
blk_init_step(c, i) ==
    CASE i = 1  -> blk_power_on(c)
      [] i = 2  -> blk_set_power(c, POWER_DOWN)
      [] i = 3  -> blk_command(c, <<213, 128>>)
      [] i = 4  -> blk_command(c, <<168, 63>>)
      [] i = 5  -> blk_command(c, <<211, 0>>)
      [] i = 6  -> blk_command_int(c, BitOr(64, 0))
      [] i = 7  -> blk_command(c, <<141, 20>>)
      [] i = 8  -> blk_call_set_addressing(c)
      [] i = 9  -> blk_command_int(c, BitOr(160, 16))
      [] i = 10 -> blk_command_int(c, 200)
      [] i = 11 -> blk_command(c, <<218, 18>>)
      [] i = 12 -> blk_set_contrast(c, 255)
      [] i = 13 -> blk_command(c, <<217, 241>>)
      [] i = 14 -> blk_command(c, <<219, 64>>)
      [] i = 15 -> blk_call_set_display(c)
      [] i = 16 -> blk_clear(c)

RECURSIVE blk_init_sequence(_, _)
blk_init_sequence(c, i) ==
    IF i > 16 \/ Raised(c) THEN c
    ELSE blk_init_sequence(blk_init_step(c, i), i + 1)

blk_init(c) == blk_init_sequence(pwr_init(init_fields(c)), 1)

\* --------------------------------------------------- the controller's side
\* Command bytes of one accepted transfer, as the controller reads them:
\* after the control byte 0x80 one command byte follows and then the next
\* control byte; after 0x00 every remaining byte is a command byte; after
\* 0x40 every remaining byte is display data.
RECURSIVE CmdBytes(_)
CmdBytes(buf) ==
    IF Len(buf) < 2 THEN <<>>
    ELSE IF buf[1] = 128 THEN <<buf[2]>> \o CmdBytes(SubSeq(buf, 3, Len(buf)))
    ELSE IF buf[1] = 0 THEN Tail(buf)
    ELSE <<>>

\* Number of parameter bytes that follow an opcode.
ParamCount(op) ==
    IF op \in {129, 168, 211, 218, 213, 141, 32, 217, 219} THEN 1
    ELSE IF op \in {33, 34} THEN 2
    ELSE 0

\* The controller's power and clock registers after the command bytes cmds.
RECURSIVE Execute(_, _)
Execute(reg, cmds) ==
    IF cmds = <<>> THEN reg
    ELSE LET op   == Head(cmds)
             n    == ParamCount(op)
             rest == SubSeq(cmds, 2 + n, Len(cmds))
             reg1 == IF op \in {POWER_UP, POWER_DOWN} THEN [reg EXCEPT !.power = op]
                     ELSE IF op = 213 /\ Len(cmds) >= 2 THEN [reg EXCEPT !.d5 = cmds[2]]
                     ELSE reg
         IN Execute(reg1, rest)

\* ... after every accepted transfer of the event list tr.
RECURSIVE Receive(_, _)
Receive(reg, tr) ==
    IF tr = <<>> THEN reg
    ELSE Receive(IF Head(tr).kind = "i2c" THEN Execute(reg, CmdBytes(Head(tr).buf)) ELSE reg,
                 Tail(tr))

\* ------------------------------------------------------------------ actions
\* The call `op(args)` has run to the context c: the object's fields, the
\* pin and the controller are what the call left, and the call is recorded.
Return(op, args, c) ==
    /\ power' = c.power
    /\ addressing' = c.addressing
    /\ display_mode' = c.display_mode
    /\ osc_freq' = c.osc_freq
    /\ clock_div' = c.clock_div
    /\ pwr_pin' = c.pwr_pin
    /\ call' = [op |-> op, args |-> args, failAt |-> c.failAt]
    /\ result' = c.err
    /\ trace' = c.trace
    /\ faulted' = (faulted \/ c.err = "OSError")
    /\ LET reg == Receive([power |-> ctl_power, d5 |-> ctl_d5], c.trace)
       IN ctl_power' = reg.power /\ ctl_d5' = reg.d5

\* A method call on the constructed object.
Method(op, args, c) ==
    /\ phase = "ready"
    /\ ncalls < MaxCalls
    /\ ncalls' = ncalls + 1
    /\ Return(op, args, c)
    /\ UNCHANGED <<phase, variant, pwr>>

Init ==
    /\ phase = "new"
    /\ variant \in {"per_byte", "block"}
    /\ pwr \in {"None", "WiPy", "pyBoard"}
    /\ pwr_pin = -1
    /\ power = POWER_DOWN
    /\ addressing = ADDRESSING_HORIZ
    /\ display_mode = DISPLAY_NORMAL
    /\ osc_freq = 8
    /\ clock_div = 1
    /\ call = [op |-> "none", args |-> <<>>, failAt |-> 0]
    /\ result = "ok"
    /\ trace = <<>>
    /\ ncalls = 0
    /\ faulted = FALSE
    /\ ctl_power = 0
    /\ ctl_d5 = -1

\* Transfers a successful __init__ issues (14 register writes, 3 for clear).
InitTransfers == 17

\* SSD1306(i2c, pwr=pwr) of ussd1306_i2c.py
Construct ==
    /\ phase = "new"
    /\ variant = "per_byte"
    /\ \E failAt \in 0..InitTransfers :
         LET c == init(Enter(failAt))
         IN /\ phase' = IF Raised(c) THEN "failed" ELSE "ready"
            /\ Return("__init__", <<>>, c)
    /\ UNCHANGED <<variant, pwr, ncalls>>

\* SSD1306(i2c, pwr=pwr) of ussd1306-i2c.py
ConstructBlock ==
    /\ phase = "new"
    /\ variant = "block"
    /\ \E failAt \in 0..InitTransfers :
         LET c == blk_init(Enter(failAt))
         IN /\ phase' = IF Raised(c) THEN "failed" ELSE "ready"
            /\ Return("__init__", <<>>, c)
    /\ UNCHANGED <<variant, pwr, ncalls>>

\* ------------------------------------------------------- argument samples
\* Both ends of the documented integer domain lo..hi and the values just
\* outside it.
Sample(lo, hi) == ((lo - Margin)..lo) \cup (hi..(hi + Margin))

\* Argument pairs: each argument sampled while the other is at its lower end.
Pairs(lo1, hi1, lo2, hi2) ==
    {<<a, lo2>> : a \in Sample(lo1, hi1)} \cup {<<lo1, b>> : b \in Sample(lo2, hi2)}

BoolArgs == {"True", "False", "1"}
PowerArgs == {POWER_UP, POWER_DOWN} \cup (164..(164 + Margin - 1))
AddressingArgs == (0 - Margin)..(2 + Margin)
DisplayArgs == {DISPLAY_BLANK, DISPLAY_ALL, DISPLAY_NORMAL, DISPLAY_INVERSE}
                 \cup {<<166 + k>> : k \in 0..(Margin - 1)}
RawArgs == {<<>>, <<175>>, <<213, 240>>, <<129, 174>>}
DataArgs == {<<>>, <<255>>, <<1, 2, 3>>}

\* ------------------------------------------ the methods of ussd1306_i2c.py
SetPower ==
    \E p \in PowerArgs, failAt \in 0..1 :
        Method("set_power", <<p>>, set_power(Enter(failAt), p))

SetVcomhDeselectLevel ==
    \E level \in Sample(0, 7), failAt \in 0..1 :
        Method("set_vcomh_deselect_level", <<level>>,
               set_vcomh_deselect_level(Enter(failAt), level))

SetPrechargePeriod ==
    \E p \in Pairs(1, 15, 1, 15), failAt \in 0..1 :
        Method("set_precharge_period", p,
               set_precharge_period(Enter(failAt), p[1], p[2]))

SetComPinsHwConfig ==
    \E a \in BoolArgs, b \in BoolArgs, failAt \in 0..1 :
        Method("set_com_pins_hw_config", <<a, b>>,
               set_com_pins_hw_config(Enter(failAt), a, b))

SetComOutputScanDirRemapEnabled ==
    \E status \in BoolArgs, failAt \in 0..1 :
        Method("set_com_output_scan_dir_remap_enabled", <<status>>,
               set_com_output_scan_dir_remap_enabled(Enter(failAt), status))

SetSegmentRemapEnabled ==
    \E status \in BoolArgs, failAt \in 0..1 :
        Method("set_segment_remap_enabled", <<status>>,
               set_segment_remap_enabled(Enter(failAt), status))

SetChargepumpEnabled ==
    \E status \in BoolArgs, failAt \in 0..1 :
        Method("set_chargepump_enabled", <<status>>,
               set_chargepump_enabled(Enter(failAt), status))

SetOscfreqclockdiv ==
    \E failAt \in 0..1 :
        Method("_set_oscfreqclockdiv", <<>>, set_oscfreqclockdiv(Enter(failAt)))

SetOscFreq ==
    \E f \in Sample(0, 15), set \in BOOLEAN, failAt \in 0..1 :
        Method("set_osc_freq", <<f, set>>, set_osc_freq(Enter(failAt), f, set))

SetClockDiv ==
    \E d \in Sample(1, 16), set \in BOOLEAN, failAt \in 0..1 :
        Method("set_clock_div", <<d, set>>, set_clock_div(Enter(failAt), d, set))

SetMuxRatio ==
    \E m \in Sample(16, 64), failAt \in 0..1 :
        Method("set_mux_ratio", <<m>>, set_mux_ratio(Enter(failAt), m))

SetDispOffset ==
    \E offset \in Sample(0, 63), failAt \in 0..1 :
        Method("set_disp_offset", <<offset>>, set_disp_offset(Enter(failAt), offset))

SetDispStartLine ==
    \E start_line \in Sample(0, 63), failAt \in 0..1 :
        Method("set_disp_start_line", <<start_line>>,
               set_disp_start_line(Enter(failAt), start_line))

SetAddressing ==
    \E addr \in AddressingArgs, failAt \in 0..1 :
        Method("set_addressing", <<addr>>, set_addressing(Enter(failAt), addr))

SetDisplay ==
    \E mode \in DisplayArgs, failAt \in 0..1 :
        Method("set_display", <<mode>>, set_display(Enter(failAt), mode))

SetContrast ==
    \E value \in Sample(0, 255), failAt \in 0..1 :
        Method("set_contrast", <<value>>, set_contrast(Enter(failAt), value))

Position ==
    \E xy \in Pairs(0, width - 1, 0, height \div 8 - 1), failAt \in 0..1 :
        Method("position", xy, position(Enter(failAt), xy[1], xy[2]))

Clear ==
    \E failAt \in 0..3 :
        Method("clear", <<>>, clear(Enter(failAt)))

PowerOn ==
    Method("power_on", <<>>, power_on(Enter(0)))

Reset ==
    Method("reset", <<>>, reset(Enter(0)))

PowerOff ==
    \E failAt \in 0..4 :
        Method("power_off", <<>>, power_off(Enter(failAt)))

Command ==
    \E arr \in RawArgs, failAt \in 0..1 :
        Method("command", <<arr>>, command(Enter(failAt), arr))

Data ==
    \E arr \in DataArgs, failAt \in 0..1 :
        Method("data", <<arr>>, data(Enter(failAt), arr))

Next ==
    \/ SetPower
    \/ SetVcomhDeselectLevel
    \/ SetPrechargePeriod
    \/ SetComPinsHwConfig
    \/ SetComOutputScanDirRemapEnabled
    \/ SetSegmentRemapEnabled
    \/ SetChargepumpEnabled
    \/ SetOscfreqclockdiv
    \/ SetOscFreq
    \/ SetClockDiv
    \/ SetMuxRatio
    \/ SetDispOffset
    \/ SetDispStartLine
    \/ SetAddressing
    \/ SetDisplay
    \/ SetContrast
    \/ Position
    \/ Clear
    \/ PowerOn
    \/ Reset
    \/ PowerOff
    \/ Command
    \/ Data
    \/ Construct
    \/ ConstructBlock

Spec == Init /\ [][Next]_vars

\* ------------------------------------- set_contrast over its whole domain
\* Every contrast value of the documented domain 0..255 and the values
\* just outside it.
ContrastArgs == (0 - Margin)..(255 + Margin)

SetContrastAny ==
    \E value \in ContrastArgs, failAt \in 0..1 :
        Method("set_contrast", <<value>>, set_contrast(Enter(failAt), value))

\* set_contrast called with any value, between calls that change the
\* cached fields.
NextContrast ==
    \/ SetPower
    \/ SetAddressing
    \/ SetContrastAny
    \/ Construct
    \/ ConstructBlock

SpecContrast == Init /\ [][NextContrast]_vars

\* ------------------------------------------------------------- properties
\* The transfers of an event list that the bus accepted, in order.
Accepted(tr) == SelectSeq(tr, LAMBDA e : e.kind = "i2c")

\* The command payloads the register initialization must put on the bus.
ExpectedInitCommands ==
    << <<174>>, <<168, 63>>, <<211, 0>>, <<64>>, <<160>>, <<192>>,
       <<218, 18>>, <<129, 255>>, <<213, 128>>, <<141, 20>>, <<32, 0>>,
       <<217, 241>>, <<219, 64>>, <<164, 166, 175>> >>

\* The bytes of a per-byte framed position command for (0,0).
Position00 == <<128, 33, 128, 0, 128, 127, 128, 34, 128, 0, 128, 7>>

\* buf is one data transfer of 1024 zero bytes.
IsZeroFill(buf) ==
    /\ Len(buf) = 1025
    /\ buf[1] = 64
    /\ {buf[i] : i \in 2..1025} = {0}

\* tr is exactly the three transfers of clear().
IsClear(tr) ==
    /\ Len(tr) = 3
    /\ {tr[i].kind : i \in 1..3} = {"i2c"}
    /\ tr[1].buf = Position00
    /\ IsZeroFill(tr[2].buf)
    /\ tr[3].buf = Position00

\* C1: constructing the per-byte driver on a bus that accepts every
\* transfer succeeds, and the bus sees the fourteen register commands in
\* the documented order, each once, followed only by the clear transfers.
C1_InitOrder ==
    (variant = "per_byte" /\ call.op = "__init__" /\ call.failAt = 0) =>
        LET bus == Accepted(trace)
        IN /\ result = "ok"
           /\ Len(bus) = 17
           /\ \A i \in 1..14 : /\ bus[i].buf[1] = 128
                               /\ CmdBytes(bus[i].buf) = ExpectedInitCommands[i]
           /\ IsClear(SubSeq(bus, 15, 17))

\* The same order, for the constructions that do return (no pin, or a
\* machine.Pin): a lemma recorded beside C1.
InitOrderWhenConstructed ==
    (variant = "per_byte" /\ call.op = "__init__" /\ result = "ok") =>
        LET bus == Accepted(trace)
        IN /\ Len(bus) = 17
           /\ \A i \in 1..14 : CmdBytes(bus[i].buf) = ExpectedInitCommands[i]
           /\ IsClear(SubSeq(bus, 15, 17))

CachingSetters == {"set_power", "set_addressing", "set_display", "set_osc_freq", "set_clock_div"}

CacheUnchanged ==
    UNCHANGED <<power, addressing, display_mode, osc_freq, clock_div>>

\* C2: when the transfer of a state-caching setter fails, the failure
\* reaches the caller and every cached field keeps its value.
C2_FailedTransferKeepsCache ==
    [][(call'.op \in CachingSetters /\ Len(trace') = 1 /\ trace'[1].kind = "i2c_fail") =>
          (result' = "OSError" /\ CacheUnchanged)]_vars

\* C3: on a bus that never failed, the cached power state of a constructed
\* driver is the last power opcode the controller received.
C3_CachedPowerIsControllerPower ==
    (phase = "ready" /\ ~faulted) => power = ctl_power

\* C3, second half: only set_power changes the cached power state
\* (power_off changes it by calling set_power).
C3_OnlySetPowerChangesPower ==
    [][(phase = "ready" /\ power' # power) => call'.op \in {"set_power", "power_off"}]_vars

\* The arguments of the last call lie outside the documented domain of
\* the method.
OutOfDomain(cl) ==
    LET a == cl.args
    IN CASE cl.op = "set_power" -> a[1] \notin {175, 174}
         [] cl.op = "set_vcomh_deselect_level" -> a[1] \notin 0..7
         [] cl.op = "set_precharge_period" -> a[1] \notin 1..15 \/ a[2] \notin 1..15
         [] cl.op = "set_com_pins_hw_config" ->
                a[1] \notin {"True", "False"} \/ a[2] \notin {"True", "False"}
         [] cl.op \in {"set_com_output_scan_dir_remap_enabled",
                       "set_segment_remap_enabled", "set_chargepump_enabled"} ->
                a[1] \notin {"True", "False"}
         [] cl.op = "set_osc_freq" -> a[1] \notin 0..15
         [] cl.op = "set_clock_div" -> a[1] \notin 1..16
         [] cl.op = "set_mux_ratio" -> a[1] \notin 16..64
         [] cl.op \in {"set_disp_offset", "set_disp_start_line"} -> a[1] \notin 0..63
         [] cl.op = "set_addressing" -> a[1] \notin {0, 1, 2}
         [] cl.op = "set_display" ->
                a[1] \notin {<<174>>, <<165>>, <<164, 166, 175>>, <<167>>}
         [] cl.op = "set_contrast" -> a[1] \notin 0..255
         [] cl.op = "position" -> a[1] \notin 0..127 \/ a[2] \notin 0..7
         [] OTHER -> FALSE

\* C4: a call with an out-of-domain argument fails before any side
\* effect: no event at all (so no bus transfer), cached fields untouched.
C4_InvalidArgumentNoSideEffect ==
    [][OutOfDomain(call') =>
          (/\ result' = "AssertionError"
           /\ trace' = <<>>
           /\ CacheUnchanged
           /\ UNCHANGED <<pwr_pin, ctl_power, ctl_d5>>)]_vars

C4_Witness ==
    /\ call.op = "set_osc_freq"
    /\ call.args = <<16, TRUE>>
    /\ result = "AssertionError"
    /\ trace = <<>>
    /\ osc_freq # 16

\* C5: reset() completes, leaves the cache at the controller's post-reset
\* defaults and sends no register write.
C5_ResetResynchronizes ==
    call.op = "reset" =>
        /\ result = "ok"
        /\ power = 174
        /\ addressing = 0
        /\ display_mode = <<164, 166, 175>>
        /\ \A i \in 1..Len(trace) : trace[i].kind \notin {"i2c", "i2c_fail"}

\* C6: every offset and every start line in 0..63 is accepted and encoded
\* as [0xD3, offset] and [0x40 | start_line].
C6_FullDomainAccepted ==
    (/\ call.op \in {"set_disp_offset", "set_disp_start_line"}
     /\ call.args[1] \in 0..63
     /\ call.failAt = 0) =>
        /\ result = "ok"
        /\ Len(trace) = 1
        /\ trace[1].kind = "i2c"
        /\ trace[1].buf = IF call.op = "set_disp_offset"
                          THEN <<128, 211, 128, call.args[1]>>
                          ELSE <<128, 64 + call.args[1]>>

\* C7: clear() on an accepting bus sends position(0,0), one transfer of
\* 1024 zero data bytes and position(0,0) again, nothing else, and changes
\* no cached field.
C7_ClearTransfers ==
    [][(call'.op = "clear" /\ call'.failAt = 0) =>
          (/\ result' = "ok"
           /\ IsClear(trace')
           /\ CacheUnchanged)]_vars

C7_Witness ==
    /\ call.op = "clear"
    /\ call.failAt = 0
    /\ result = "ok"
    /\ Len(trace) = 3
    /\ power = 175

\* The 0xD5 register value that corresponds to the cached fields f and d.
ClockRegister(f, d) == 16 * f + (d - 1)

\* C8: a valid set_osc_freq / set_clock_div call stores its argument; with
\* set=False it transmits nothing and the controller keeps its old 0xD5
\* value, with set=True it transmits one [0xD5, v] where v is computed
\* from both cached fields, and the controller then holds that v.
C8_ClockRegisterFromCache ==
    [][(/\ call'.op \in {"set_osc_freq", "set_clock_div"}
        /\ ~OutOfDomain(call')
        /\ call'.failAt = 0) =>
          (/\ result' = "ok"
           /\ IF call'.op = "set_osc_freq"
              THEN osc_freq' = call'.args[1] /\ clock_div' = clock_div
              ELSE clock_div' = call'.args[1] /\ osc_freq' = osc_freq
           /\ IF call'.args[2]
              THEN /\ Len(trace') = 1
                   /\ trace'[1].kind = "i2c"
                   /\ trace'[1].buf = <<128, 213, 128, ClockRegister(osc_freq', clock_div')>>
                   /\ ctl_d5' = ClockRegister(osc_freq', clock_div')
              ELSE /\ trace' = <<>>
                   /\ ctl_d5' = ctl_d5)]_vars

\* A set=True call that re-synchronizes a controller register left stale
\* by an earlier set=False call.
C8_Witness ==
    /\ call.op = "set_clock_div"
    /\ call.args = <<16, TRUE>>
    /\ result = "ok"
    /\ osc_freq = 15
    /\ ctl_d5 = 255

\* The controller register is stale after a set=False call.
C8_StaleWitness ==
    /\ call.op = "set_osc_freq"
    /\ call.args[2] = FALSE
    /\ result = "ok"
    /\ trace = <<>>
    /\ ctl_d5 # ClockRegister(osc_freq, clock_div)

\* The events of a complete power_off(): the clear transfers, the power
\* Down command, the 10 ms delay and, with a power pin, the pin going low.
IsPowerOff(tr, pin) ==
    /\ Len(tr) = IF pin = "None" THEN 5 ELSE 6
    /\ IsClear(SubSeq(tr, 1, 3))
    /\ tr[4] = [kind |-> "i2c", buf |-> <<128, 174>>, val |-> 0]
    /\ tr[5].kind = "sleep_ms"
    /\ tr[5].val >= 10
    /\ pin # "None" => tr[6] = [kind |-> "pin", buf |-> <<>>, val |-> 0]

\* Every pin write of the event list tr is its sixth event and follows an
\* accepted power Down command and a delay of at least 10 ms.
PinOnlyLast(tr) ==
    \A i \in 1..Len(tr) :
        tr[i].kind = "pin" =>
            /\ i = 6
            /\ tr[4] = [kind |-> "i2c", buf |-> <<128, 174>>, val |-> 0]
            /\ tr[5].kind = "sleep_ms"
            /\ tr[5].val >= 10

\* C9: power_off() on an accepting bus clears, sends power Down, waits at
\* least 10 ms and only then drives the power pin low; without a pin there
\* is no pin action; on any bus the pin is never driven before the power
\* Down command and the delay.
C9_PowerOffOrder ==
    call.op = "power_off" =>
        /\ PinOnlyLast(trace)
        /\ pwr = "None" => {i \in 1..Len(trace) : trace[i].kind = "pin"} = {}
        /\ call.failAt = 0 => (result = "ok" /\ IsPowerOff(trace, pwr) /\ power = 174)

C9_Witness ==
    /\ call.op = "power_off"
    /\ call.failAt = 0
    /\ pwr = "WiPy"
    /\ result = "ok"
    /\ Len(trace) = 6
    /\ pwr_pin = 0

\* C10: power_on() and reset() complete normally; without a power pin they
\* perform no pin action, and power_on() with a power pin drives it high.
C10_AbsentLinesAreNoOps ==
    call.op \in {"power_on", "reset"} =>
        /\ result = "ok"
        /\ pwr = "None" => trace = <<>>
        /\ (call.op = "power_on" /\ pwr # "None") =>
               trace = <<[kind |-> "pin", buf |-> <<>>, val |-> 1]>>

\* The part of C10 that is about power_on() alone: a lemma beside C10.
PowerOnPinAction ==
    call.op = "power_on" =>
        /\ result = "ok"
        /\ trace = IF pwr = "None" THEN <<>> ELSE <<[kind |-> "pin", buf |-> <<>>, val |-> 1]>>

\* C11: constructing the block-framing driver (ussd1306-i2c.py) on a bus
\* that accepts every transfer returns normally, leaves the driver ready
\* and has sent the zero fill of clear(); no step of __init__ aborts.
C11_BlockConstructionReachesReady ==
    (variant = "block" /\ call.op = "__init__" /\ call.failAt = 0) =>
        /\ result = "ok"
        /\ phase = "ready"
        /\ {i \in 1..Len(trace) : trace[i].kind = "i2c" /\ IsZeroFill(trace[i].buf)} # {}

\* What the block-framing constructor does instead, whatever the bus does:
\* it raises before the first transfer (a lemma beside C11).
BlockConstructionAlwaysRaises ==
    (variant = "block" /\ call.op = "__init__") =>
        /\ result \in {"AttributeError", "NameError"}
        /\ phase = "failed"
        /\ Accepted(trace) = <<>>

\* C12 as claimed: when construction of the per-byte driver returns, the
\* last transfer the bus accepted is the 1024-byte zero fill.
C12_LastTransferIsZeroFill ==
    (variant = "per_byte" /\ call.op = "__init__" /\ result = "ok") =>
        LET bus == Accepted(trace)
        IN /\ bus # <<>>
           /\ IsZeroFill(bus[Len(bus)].buf)

\* C12: when construction of the per-byte driver returns, the zero fill
\* is the only data transfer and the last but one transfer; exactly one
\* transfer follows it, the command that puts the cursor back at (0,0).
C12_ZeroFillThenCursorHome ==
    (variant = "per_byte" /\ call.op = "__init__" /\ result = "ok") =>
        LET bus == Accepted(trace)
            n == Len(bus)
        IN /\ n >= 2
           /\ IsZeroFill(bus[n - 1].buf)
           /\ bus[n].buf = Position00
           /\ {i \in 1..n : bus[i].buf[1] = 64} = {n - 1}

C12_Witness ==
    /\ variant = "per_byte"
    /\ call.op = "__init__"
    /\ result = "ok"
    /\ phase = "ready"
    /\ Len(Accepted(trace)) = 17
    /\ IsZeroFill(Accepted(trace)[16].buf)

\* C13: for every contrast value v in 0..255, set_contrast(v) on an
\* accepting bus issues exactly one transfer, the per-byte framed command
\* [0x81, v], and changes no cached field.
C13_ContrastEncoding ==
    [][(/\ call'.op = "set_contrast"
        /\ call'.args[1] \in 0..255
        /\ call'.failAt = 0) =>
          (/\ result' = "ok"
           /\ trace' = <<[kind |-> "i2c", buf |-> <<128, 129, 128, call'.args[1]>>, val |-> 0]>>
           /\ CmdBytes(trace'[1].buf) = <<129, call'.args[1]>>
           /\ CacheUnchanged)]_vars

C13_Witness ==
    /\ call.op = "set_contrast"
    /\ call.args = <<200>>
    /\ call.failAt = 0
    /\ result = "ok"
    /\ Len(trace) = 1
    /\ power = 175
    /\ addressing = 2

\* The public register setters.
Setters ==
    {"set_power", "set_vcomh_deselect_level", "set_precharge_period",
     "set_com_pins_hw_config", "set_com_output_scan_dir_remap_enabled",
     "set_segment_remap_enabled", "set_chargepump_enabled", "set_osc_freq",
     "set_clock_div", "set_mux_ratio", "set_disp_offset", "set_disp_start_line",
     "set_addressing", "set_display", "set_contrast"}

\* The two setters that write the shared 0xD5 register.
ClockSetters == {"set_osc_freq", "set_clock_div"}

\* The setter `op` called with the argument tuple a in the context c.
SetterCall(c, op, a) ==
    CASE op = "set_power" -> set_power(c, a[1])
      [] op = "set_vcomh_deselect_level" -> set_vcomh_deselect_level(c, a[1])
      [] op = "set_precharge_period" -> set_precharge_period(c, a[1], a[2])
      [] op = "set_com_pins_hw_config" -> set_com_pins_hw_config(c, a[1], a[2])
      [] op = "set_com_output_scan_dir_remap_enabled" ->
             set_com_output_scan_dir_remap_enabled(c, a[1])
      [] op = "set_segment_remap_enabled" -> set_segment_remap_enabled(c, a[1])
      [] op = "set_chargepump_enabled" -> set_chargepump_enabled(c, a[1])
      [] op = "set_osc_freq" -> set_osc_freq(c, a[1], a[2])
      [] op = "set_clock_div" -> set_clock_div(c, a[1], a[2])
      [] op = "set_mux_ratio" -> set_mux_ratio(c, a[1])
      [] op = "set_disp_offset" -> set_disp_offset(c, a[1])
      [] op = "set_disp_start_line" -> set_disp_start_line(c, a[1])
      [] op = "set_addressing" -> set_addressing(c, a[1])
      [] op = "set_display" -> set_display(c, a[1])
      [] op = "set_contrast" -> set_contrast(c, a[1])

\* The context of a call on a driver whose fields are those a construction
\* leaves, on an accepting bus.
FreshContext ==
    [Enter(0) EXCEPT !.power = POWER_DOWN, !.addressing = ADDRESSING_HORIZ,
                     !.display_mode = DISPLAY_NORMAL, !.osc_freq = 8, !.clock_div = 1]

\* C14 as claimed: on an accepting bus the events of any setter call are
\* those the same call produces on a freshly constructed driver, whatever
\* was called before: they depend on the arguments only.
C14_SetterBytesDependOnArgumentsOnly ==
    (phase = "ready" /\ call.op \in Setters /\ call.failAt = 0) =>
        trace = SetterCall(FreshContext, call.op, call.args).trace

\* C14: the same, for set_display and every setter other than set_osc_freq
\* and set_clock_div: the bytes depend on the arguments only, so two
\* set_display(DISPLAY_NORMAL) calls put identical bytes on the bus.
C14_DisplayBytesDependOnArgumentsOnly ==
    (phase = "ready" /\ call.op \in Setters \ ClockSetters /\ call.failAt = 0) =>
        /\ trace = SetterCall(FreshContext, call.op, call.args).trace
        /\ (call.op = "set_display" /\ call.args = <<DISPLAY_NORMAL>>) =>
               trace = <<[kind |-> "i2c", buf |-> <<128, 164, 128, 166, 128, 175>>, val |-> 0]>>

\* set_display(DISPLAY_NORMAL) called on a driver that earlier calls left
\* in another display mode and addressing mode.
C14_Witness ==
    /\ call.op = "set_display"
    /\ call.args = <<DISPLAY_NORMAL>>
    /\ call.failAt = 0
    /\ ncalls = 3
    /\ addressing = ADDRESSING_PAGE
    /\ ctl_power = POWER_UP
    /\ Len(trace) = 1

\* Two successive identical setter calls on an accepting bus put identical
\* bytes on the bus (a lemma beside C14; it holds for the clock setters too).
RepeatedSetterSameBytes ==
    [][(/\ call.op \in Setters
        /\ call'.op = call.op
        /\ call'.args = call.args
        /\ call.failAt = 0
        /\ call'.failAt = 0) => trace' = trace]_vars

\* The bytes of set_osc_freq(f, True) depend on the cached clock divider.
ClockBytesDependOnCache ==
    /\ call.op = "set_osc_freq"
    /\ call.args = <<15, TRUE>>
    /\ call.failAt = 0
    /\ result = "ok"
    /\ trace[1].buf = <<128, 213, 128, 255>>

\* The per-byte framing of the command bytes b1..bN: 0x80,b1,...,0x80,bN.
Framed(arr) == [i \in 1..(2 * Len(arr)) |-> IF i % 2 = 1 THEN 128 ELSE arr[i \div 2]]

\* buf has an even number of bytes, at least two, and every byte at an odd
\* position is the command control byte.
IsFramed(buf) ==
    /\ Len(buf) >= 2
    /\ Len(buf) % 2 = 0
    /\ {buf[i] : i \in {j \in 1..Len(buf) : j % 2 = 1}} = {128}

\* The operations that send pixel data.
DataOps == {"data", "clear", "power_off", "__init__"}

\* C15: in the per-byte driver every transfer put on the bus is either a
\* data transfer (first byte 0x40) or a framed command 0x80,b1,...,0x80,bN
\* with N >= 1; command(b1..bN) itself sends exactly Framed(b1..bN); an
\* operation that sends no pixel data never starts a transfer with 0x40,
\* and the others send 0x40 only in front of the payload they were given
\* or of the 1024 zero bytes.
C15_PerByteFraming ==
    (variant = "per_byte" /\ ~(call.op = "command" /\ call.args = << <<>> >>)) =>
        /\ \A i \in 1..Len(trace) :
               trace[i].kind \in {"i2c", "i2c_fail"} =>
                   \/ IsFramed(trace[i].buf)
                   \/ /\ trace[i].buf[1] = 64
                      /\ call.op \in DataOps
                      /\ IF call.op = "data"
                         THEN trace[i].buf = <<64>> \o call.args[1]
                         ELSE IsZeroFill(trace[i].buf)
        /\ call.op = "command" =>
               /\ Len(trace) = 1
               /\ trace[1].buf = Framed(call.args[1])
               /\ Len(trace[1].buf) = 2 * Len(call.args[1])

C15_Witness ==
    /\ call.op = "command"
    /\ call.args = << <<213, 240>> >>
    /\ result = "ok"
    /\ trace = <<[kind |-> "i2c", buf |-> <<128, 213, 128, 240>>, val |-> 0]>>

\* command([]) puts the single byte 0x80 on the bus (beside C15, which
\* is about commands of at least one byte).
EmptyCommandSendsControlByte ==
    (call.op = "command" /\ call.args = << <<>> >>) => trace[1].buf = <<128>>

\* The positions of the data transfers (first byte 0x40) in the event list tr.
DataTransfers(tr) ==
    {i \in 1..Len(tr) : tr[i].kind \in {"i2c", "i2c_fail"} /\ tr[i].buf[1] = 64}

\* C16: data(arr) on an accepting bus sends one transfer of Len(arr)+1
\* bytes, 0x40 followed by arr unchanged; clear() sends its 1024 zero bytes
\* as one transfer of 1025 bytes, never framed per byte, never in pieces.
C16_DataIsOneTransfer ==
    (variant = "per_byte" /\ call.failAt = 0) =>
        /\ call.op = "data" =>
               /\ result = "ok"
               /\ trace = <<[kind |-> "i2c", buf |-> <<64>> \o call.args[1], val |-> 0]>>
               /\ Len(trace[1].buf) = Len(call.args[1]) + 1
        /\ (call.op = "clear" \/ (call.op = "__init__" /\ result = "ok")) =>
               /\ Cardinality(DataTransfers(trace)) = 1
               /\ \A i \in DataTransfers(trace) :
                      /\ Len(trace[i].buf) = 1025
                      /\ IsZeroFill(trace[i].buf)

C16_Witness ==
    /\ call.op = "data"
    /\ call.args = << <<1, 2, 3>> >>
    /\ call.failAt = 0
    /\ result = "ok"
    /\ trace[1].buf = <<64, 1, 2, 3>>

\* clear() has put its single 1025-byte data transfer on the bus.
C16_ClearWitness ==
    /\ call.op = "clear"
    /\ call.failAt = 0
    /\ Len(trace) = 3
    /\ Len(trace[2].buf) = 1025

\* The positions of the transfers the bus rejected in the event list tr.
Rejected(tr) == {i \in 1..Len(tr) : tr[i].kind = "i2c_fail"}

\* C17: in the per-byte driver a rejected transfer is the last event of
\* the call: it is not issued again, nothing (transfer, pin write or
\* delay) follows it, and the call ends with the bus error.  The call has
\* then attempted exactly failAt transfers.  clear() whose first transfer
\* fails sends no data; a construction whose k-th transfer fails has put
\* exactly the first k-1 transfers of the sequence on the bus and the
\* object is not constructed.
C17_NoRetryNoContinue ==
    variant = "per_byte" =>
        /\ \A i \in Rejected(trace) : i = Len(trace)
        /\ Rejected(trace) # {} <=> result = "OSError"
        /\ result = "OSError" =>
               /\ call.failAt >= 1
               /\ Len(Accepted(trace)) = call.failAt - 1
        /\ (call.op = "clear" /\ call.failAt = 1) =>
               trace = <<[kind |-> "i2c_fail", buf |-> Position00, val |-> 0]>>
        /\ (call.op = "__init__" /\ result = "OSError") =>
               /\ phase = "failed"
               /\ \A i \in 1..Len(Accepted(trace)) :
                      i <= 14 => CmdBytes(Accepted(trace)[i].buf) = ExpectedInitCommands[i]
               /\ call.failAt <= 16 => DataTransfers(Accepted(trace)) = {}

C17_Witness ==
    /\ call.op = "clear"
    /\ call.failAt = 1
    /\ result = "OSError"
    /\ Len(trace) = 1
    /\ trace[1].kind = "i2c_fail"

\* A construction whose fifth transfer the bus rejected.
C17_ConstructionWitness ==
    /\ call.op = "__init__"
    /\ call.failAt = 5
    /\ result = "OSError"
    /\ phase = "failed"
    /\ Len(Accepted(trace)) = 4

\* C18: position(x, y) with valid arguments on an accepting bus sends one
\* command; in Horizontal mode it is [0x21, x, width-1, 0x22, y,
\* height/8-1], and in Page mode its two opcodes are not the 0x21 / 0x22
\* pair of Horizontal mode.
C18_PositionFollowsAddressing ==
    (/\ variant = "per_byte"
     /\ call.op = "position"
     /\ call.args[1] \in 0..(width - 1)
     /\ call.args[2] \in 0..(height \div 8 - 1)
     /\ call.failAt = 0) =>
        /\ result = "ok"
        /\ Len(trace) = 1
        /\ addressing = ADDRESSING_HORIZ =>
               trace[1].buf = Framed(<<33, call.args[1], width - 1,
                                       34, call.args[2], height \div 8 - 1>>)
        /\ addressing = ADDRESSING_PAGE =>
               <<trace[1].buf[2], trace[1].buf[8]>> # <<33, 34>>

\* What position() does in every addressing mode: it sends the column
\* range 0x21 and page range 0x22 commands (a lemma beside C18).
PositionIgnoresAddressing ==
    (/\ variant = "per_byte"
     /\ call.op = "position"
     /\ call.args[1] \in 0..(width - 1)
     /\ call.args[2] \in 0..(height \div 8 - 1)
     /\ call.failAt = 0) =>
        /\ result = "ok"
        /\ trace = <<[kind |-> "i2c",
                      buf |-> Framed(<<33, call.args[1], 127, 34, call.args[2], 7>>),
                      val |-> 0]>>

====
